---- MODULE Spec2Model ----
(***************************************************************************)
(* A model of gotp (src/gotp.go): RFC4226 HOTP generation, RFC6238 TOTP    *)
(* generation, challenge verification with an optional drift window, and   *)
(* token construction.                                                     *)
(*                                                                         *)
(* Representation.  A Go []byte is a sequence of naturals 0..255 (index i  *)
(* of Go is index i+1 here).  A Go string is a sequence of one-character   *)
(* strings.  Go's int is 64 bits wide on the usual targets; every value    *)
(* computed below stays under 2^31, so no wrap-around is modelled, except  *)
(* for the int64 time step whose two's-complement bytes are taken.         *)
(***************************************************************************)
EXTENDS Integers, Sequences, FiniteSets, TLC

(***************************************************************************)
(* Bounds of the model.                                                    *)
(***************************************************************************)
MaxTokenLength == 8     \* TokenLength ranges over 1..MaxTokenLength
MaxStepSeconds == 3     \* StepSeconds ranges over 1..MaxStepSeconds
MaxSeedLength == 2      \* SeedLength ranges over 0..MaxSeedLength
MaxNow == 9             \* the wall clock ranges over 0..MaxNow
MaxTime == 7            \* GenerateTOTP is called with -MaxTime..MaxTime
MaxFamily == 1          \* the HMAC stand-ins are indexed 0..MaxFamily

VARIABLES
    StepSeconds,    \* gotp.go:22  global, the TOTP step in seconds
    SeedLength,     \* gotp.go:25  global, length of a generated seed
    TokenLength,    \* gotp.go:28  global, number of digits of a code
    mem,            \* the byte arrays: "caller" is the array behind the slice
                    \* the caller passes to TokenFromBytes, "fresh" the array
                    \* NewToken allocates
    token,          \* the Token struct, or NoToken before construction
    given,          \* history: the bytes handed to TokenFromBytes
    now,            \* the wall clock, time.Now().Unix()
    hmacFamily,     \* which stand-in for HMAC-SHA1 this run uses
    rng,            \* what rand.Intn returns, call after call, once seeded
    vc,             \* the frame of the VerifyChallenge call in progress
    ret             \* what the last completed call returned

vars == <<StepSeconds, SeedLength, TokenLength, mem, token, given, now,
          hmacFamily, rng, vc, ret>>

NoToken == [Seed |-> "nil", Base32 |-> <<>>]

(***************************************************************************)
(* Bit operations on naturals, bit by bit as the hardware does them.       *)
(***************************************************************************)
RECURSIVE And(_, _)
And(a, b) ==
    IF a = 0 \/ b = 0 THEN 0
    ELSE (IF a % 2 = 1 /\ b % 2 = 1 THEN 1 ELSE 0) + 2 * And(a \div 2, b \div 2)

RECURSIVE Or(_, _)
Or(a, b) ==
    IF a = 0 THEN b
    ELSE IF b = 0 THEN a
    ELSE (IF a % 2 = 1 \/ b % 2 = 1 THEN 1 ELSE 0) + 2 * Or(a \div 2, b \div 2)

Shl(a, n) == a * 2^n

(***************************************************************************)
(* crypto/hmac and crypto/sha1 are not code of this repository.  The model *)
(* keeps what GenerateOTP relies on: Sum returns 20 bytes that are a fixed *)
(* function of the key and of the message.  HmacSha1 is a family of such   *)
(* functions, one per value of hmacFamily, so that nothing checked below   *)
(* rests on one particular digest table.                                   *)
(***************************************************************************)
RECURSIVE Absorb(_, _)
Absorb(h, bytes) ==
    IF bytes = <<>> THEN h
    ELSE Absorb((h * 31 + Head(bytes) + 1) % 65521, Tail(bytes))

HmacSha1(key, msg) ==
    LET h == Absorb(Absorb(Absorb(7 + hmacFamily, key), <<255>>), msg)
    IN  [i \in 1..20 |-> ((h + 1) * (2 * i + 5) + (h \div 7) + i * i) % 256]

(***************************************************************************)
(* gotp.go:61-65  the RFC4226 dynamic truncation of the 20-byte digest.    *)
(***************************************************************************)
TruncationOffset_HighNibble(hmac) == hmac[Len(hmac)] \div 16

TruncationOffset(hmac) == And(hmac[Len(hmac)], 15)

DynamicTruncation(hmac) ==
    LET offset == TruncationOffset(hmac)
    IN  Or(Or(Or(Shl(And(hmac[offset + 1], 127), 24),
                 Shl(And(hmac[offset + 2], 255), 16)),
              Shl(And(hmac[offset + 3], 255), 8)),
           And(hmac[offset + 4], 255))

(***************************************************************************)
(* gotp.go:67  int(math.Pow10(TokenLength)): exact for 0 <= n <= 18.       *)
(***************************************************************************)
Pow10(n) == 10^n

(***************************************************************************)
(* gotp.go:70  fmt.Sprintf("%0<TokenLength>d", otp) for otp >= 0: the      *)
(* decimal digits of otp, left-padded with '0' up to the width, and never  *)
(* cut when they are longer than the width.                                *)
(***************************************************************************)
DigitChars == <<"0", "1", "2", "3", "4", "5", "6", "7", "8", "9">>

RECURSIVE Itoa(_)
Itoa(n) ==
    IF n < 10 THEN <<DigitChars[n + 1]>>
    ELSE Itoa(n \div 10) \o <<DigitChars[(n % 10) + 1]>>

RECURSIVE PadZero(_, _)
PadZero(s, width) == IF Len(s) >= width THEN s ELSE PadZero(<<"0">> \o s, width)

SprintfZeroPad_NoPad(width, n) == Itoa(n)

SprintfZeroPad(width, n) == PadZero(Itoa(n), width)

(***************************************************************************)
(* gotp.go:59-72  the part of GenerateOTP that follows the HMAC: offset,   *)
(* truncated value, reduction modulo 10^TokenLength, formatting.           *)
(***************************************************************************)
OTPFromHMAC(hmac) ==
    LET otp0 == DynamicTruncation(hmac)
        otp  == otp0 % Pow10(TokenLength)
    IN  [offset |-> TruncationOffset(hmac), binCode |-> otp0, otp |-> otp,
         otpString |-> SprintfZeroPad(TokenLength, otp)]

(***************************************************************************)
(* gotp.go:45-73  GenerateOTP on a token whose Seed holds `seed`.          *)
(* err is "" for a nil error.                                              *)
(***************************************************************************)
GenerateOTP_NoSeedCheck(seed, counterBytes) ==
    IF Len(counterBytes) = 0
    THEN [otp |-> <<>>, err |-> "Counter is nil or otherwise malformed."]
    ELSE [otp |-> OTPFromHMAC(HmacSha1(seed, counterBytes)).otpString, err |-> ""]

GenerateOTP(seed, counterBytes) ==
    IF Len(seed) = 0
    THEN [otp |-> <<>>, err |-> "OTP has no seed."]
    ELSE IF Len(counterBytes) = 0
    THEN [otp |-> <<>>, err |-> "Counter is nil or otherwise malformed."]
    ELSE [otp |-> OTPFromHMAC(HmacSha1(seed, counterBytes)).otpString, err |-> ""]

(***************************************************************************)
(* gotp.go:76-85  GenerateTOTP.                                            *)
(* Line 77: Go's integer division truncates toward zero.                   *)
(* Lines 79-82: byte(timeStep & 0xff) keeps the low 8 bits of the int64    *)
(* in two's complement and >> is the arithmetic shift, so they are the     *)
(* remainder and the quotient of the flooring division by 256.             *)
(***************************************************************************)
GoQuo(a, b) == IF a >= 0 THEN a \div b ELSE -((-a) \div b)

TimeStep(genTime) == GoQuo(genTime, StepSeconds)

RECURSIVE TimeBytesLoop(_, _, _)
TimeBytesLoop(i, timeStep, timeBytes) ==
    IF i < 0 THEN timeBytes
    ELSE TimeBytesLoop(i - 1, timeStep \div 256,
                       [timeBytes EXCEPT ![i + 1] = timeStep % 256])

TimeBytes(timeStep) == TimeBytesLoop(7, timeStep, [i \in 1..8 |-> 0])

GenerateTOTP(seed, genTime) == GenerateOTP(seed, TimeBytes(TimeStep(genTime)))

(***************************************************************************)
(* gotp.go:122  base32.StdEncoding.EncodeToString (RFC4648, standard       *)
(* alphabet, '=' padding) and strings.ToUpper.  Every group of up to five  *)
(* bytes gives eight characters: the 40 bits of the group, zero-filled,    *)
(* cut in eight 5-bit indexes into the alphabet (bit 0 is the top bit of   *)
(* the first byte); the indexes that hold no input bit are written as '='. *)
(***************************************************************************)
Base32Alphabet ==
    <<"A", "B", "C", "D", "E", "F", "G", "H", "I", "J", "K", "L", "M", "N", "O",
      "P", "Q", "R", "S", "T", "U", "V", "W", "X", "Y", "Z", "2", "3", "4", "5",
      "6", "7">>

Base32Group(bytes) ==
    LET n      == Len(bytes)
        b(i)   == IF i <= n THEN bytes[i] ELSE 0
        bit(k) == (b((k \div 8) + 1) \div 2^(7 - (k % 8))) % 2
        idx(j) == 16 * bit(5 * j - 5) + 8 * bit(5 * j - 4) + 4 * bit(5 * j - 3)
                      + 2 * bit(5 * j - 2) + bit(5 * j - 1)
        chars  == (n * 8 + 4) \div 5
    IN  [j \in 1..8 |-> IF j <= chars THEN Base32Alphabet[idx(j) + 1] ELSE "="]

RECURSIVE Base32Encode(_)
Base32Encode(bytes) ==
    IF Len(bytes) = 0 THEN <<>>
    ELSE IF Len(bytes) <= 5 THEN Base32Group(bytes)
    ELSE Base32Group(SubSeq(bytes, 1, 5))
             \o Base32Encode(SubSeq(bytes, 6, Len(bytes)))

LowerCase ==
    <<"a", "b", "c", "d", "e", "f", "g", "h", "i", "j", "k", "l", "m", "n", "o",
      "p", "q", "r", "s", "t", "u", "v", "w", "x", "y", "z">>

UpperCase ==
    <<"A", "B", "C", "D", "E", "F", "G", "H", "I", "J", "K", "L", "M", "N", "O",
      "P", "Q", "R", "S", "T", "U", "V", "W", "X", "Y", "Z">>

ToUpperChar(c) ==
    IF \E k \in 1..26 : LowerCase[k] = c
    THEN UpperCase[CHOOSE k \in 1..26 : LowerCase[k] = c]
    ELSE c

ToUpper(s) == [i \in 1..Len(s) |-> ToUpperChar(s[i])]

(***************************************************************************)
(* gotp.go:119-126  TokenFromBytes.  The struct literal stores the slice   *)
(* it is given: Seed names the caller's array, no copy is made.  Base32 is *)
(* computed from the bytes the array holds at that moment.                 *)
(***************************************************************************)
TokenFromBytes(ref, seedBytes) ==
    [Seed |-> ref, Base32 |-> ToUpper(Base32Encode(seedBytes))]

(***************************************************************************)
(* gotp.go:33  runeCharacters, as code points.                             *)
(***************************************************************************)
runeCharacters ==
    <<49, 50, 51, 52, 53, 54, 55, 56, 57, 48,
      65, 66, 67, 68, 69, 70, 71, 72, 73, 74, 75, 76, 77,
      78, 79, 80, 81, 82, 83, 84, 85, 86, 87, 88, 89, 90>>

(***************************************************************************)
(* gotp.go:137  []byte(string(seedRunes)): the UTF-8 encoding of the       *)
(* runes, one byte below U+0080, two bytes below U+0800 (no rune of the    *)
(* model is larger).                                                       *)
(***************************************************************************)
Utf8Rune(r) ==
    IF r < 128 THEN <<r>> ELSE <<192 + (r \div 64), 128 + (r % 64)>>

RECURSIVE Utf8(_)
Utf8(runes) ==
    IF runes = <<>> THEN <<>> ELSE Utf8Rune(Head(runes)) \o Utf8(Tail(runes))

(***************************************************************************)
(* gotp.go:131-137  the seed NewToken builds when rand.Intn returns        *)
(* picks[i] (0..35) at iteration i of the loop over seedRunes.             *)
(***************************************************************************)
NewTokenSeed_SkipFirst(picks) ==
    Utf8([i \in 1..SeedLength |->
             IF i = 1 THEN 0 ELSE runeCharacters[picks[i] + 1]])

NewTokenSeed(picks) ==
    Utf8([i \in 1..SeedLength |-> runeCharacters[picks[i] + 1]])

(***************************************************************************)
(* gotp.go:91-116  VerifyChallenge, cut at its reads of the wall clock.    *)
(* VerifyEnter is lines 92-97.  VerifyIterate is one iteration of the loop *)
(* of lines 99-107, which reads time.Now() afresh; the iteration that ends *)
(* the loop goes on through the comparison of lines 109-115.               *)
(* genTimes, err and seed are history: the values of the locals genTime    *)
(* and err, and the bytes t.Seed held during the call.                     *)
(***************************************************************************)
IdleFrame ==
    [pc |-> "idle", challenge |-> <<>>, drift |-> FALSE, steps |-> <<>>,
     otps |-> <<>>, genTimes |-> <<>>, err |-> "", seed |-> <<>>,
     result |-> FALSE]

VerifyEnter_AlwaysDrift(challenge, drift) ==
    [pc |-> "loop", challenge |-> challenge, drift |-> drift,
     steps |-> <<0, (-1) * StepSeconds, StepSeconds>>,
     otps |-> <<>>, genTimes |-> <<>>, err |-> "", seed |-> <<>>,
     result |-> FALSE]

VerifyEnter(challenge, drift) ==
    [pc |-> "loop", challenge |-> challenge, drift |-> drift,
     steps |-> IF drift = TRUE
               THEN <<0>> \o <<(-1) * StepSeconds, StepSeconds>>
               ELSE <<0>>,
     otps |-> <<>>, genTimes |-> <<>>, err |-> "", seed |-> <<>>,
     result |-> FALSE]

VerifyCompare(f) ==
    [f EXCEPT !.pc = "done",
              !.result = \E k \in 1..Len(f.otps) : f.otps[k] = f.challenge]

VerifyIterate_ErrIgnored(f, seed, clock) ==
    LET step    == f.steps[Len(f.otps) + 1]
        genTime == clock + step
        r       == GenerateTOTP(seed, genTime)
        g       == [f EXCEPT !.otps = Append(@, r.otp),
                             !.genTimes = Append(@, genTime),
                             !.err = r.err, !.seed = seed]
    IN  IF Len(g.otps) = Len(g.steps) THEN VerifyCompare(g) ELSE g

VerifyIterate(f, seed, clock) ==
    LET step    == f.steps[Len(f.otps) + 1]
        genTime == clock + step
        r       == GenerateTOTP(seed, genTime)
    IN  IF r.err # ""
        THEN [f EXCEPT !.pc = "done", !.result = FALSE, !.err = r.err,
                       !.genTimes = Append(@, genTime), !.seed = seed]
        ELSE LET g == [f EXCEPT !.otps = Append(@, r.otp),
                                !.genTimes = Append(@, genTime), !.seed = seed]
             IN  IF Len(g.otps) = Len(g.steps) THEN VerifyCompare(g) ELSE g

(***************************************************************************)
(* The inputs the callers of the model use.                                *)
(***************************************************************************)
DefaultStepSeconds == 30
DefaultTokenLength == 6

SeedSamples == {<<>>, <<65>>, <<65, 66>>, <<0, 255>>}

WriteBytes == {66, 255}

CounterSamples ==
    {<<>>, <<0>>, <<1>>, <<0, 0, 0, 0, 0, 0, 0, 0>>, <<0, 0, 0, 0, 0, 0, 0, 1>>,
     <<0, 0, 0, 0, 0, 0, 1, 0>>, <<255, 255, 255, 255, 255, 255, 255, 255>>}

\* 20-byte digests: every offset nibble, either high nibble of the last
\* byte, and every window of four bytes over WindowBytes.
WindowBytes == {0, 127, 128, 255}

DigestSamples ==
    {[i \in 1..20 |->
         IF i = 20 THEN 16 * hi + o
         ELSE IF i - 1 >= o /\ i - 1 <= o + 3 THEN w[i - o]
         ELSE (13 * i + 5) % 256] :
     o \in 0..15, hi \in {0, 15},
     w \in [1..4 -> WindowBytes]}

\* The bytes the token's Seed slice holds now.
Seed == mem[token.Seed]

\* The counter of time step k: the 8 bytes, big-endian, of k as an int64.
StepCounter(k) ==
    [i \in 1..8 |-> IF i <= 4 THEN (IF k < 0 THEN 255 ELSE 0)
                    ELSE (k \div 256^(8 - i)) % 256]

\* The code of time step k under the seed `seed`, and for the token as it
\* is now.
CodeOfStep(seed, k) == GenerateOTP(seed, StepCounter(k)).otp

StepCode(k) == CodeOfStep(Seed, k)

ChallengeSamples ==
    {<<>>, <<"0">>} \cup
    {StepCode(k) : k \in ((now \div StepSeconds) - 3)..((now \div StepSeconds) + 3)}

(***************************************************************************)
(* The operations.                                                         *)
(***************************************************************************)
CallTokenFromBytes ==
    /\ vc.pc # "loop"
    /\ token' = TokenFromBytes("caller", mem["caller"])
    /\ given' = mem["caller"]
    /\ ret' = [op |-> "TokenFromBytes"]
    /\ UNCHANGED <<StepSeconds, SeedLength, TokenLength, mem, now, hmacFamily, rng, vc>>

\* Line 130 seeds the generator from the clock; rng is the sequence of
\* values rand.Intn(36) then returns, any sequence being possible.
CallNewToken ==
    /\ vc.pc # "loop"
    /\ LET seedBytes == NewTokenSeed(rng)
       IN  /\ mem' = [mem EXCEPT !["fresh"] = seedBytes]
           /\ token' = TokenFromBytes("fresh", seedBytes)
           /\ given' = seedBytes
    /\ ret' = [op |-> "NewToken"]
    /\ UNCHANGED <<StepSeconds, SeedLength, TokenLength, now, hmacFamily, rng, vc>>

\* The caller stores a byte into the array behind the slice it owns.
CallerWrite ==
    /\ vc.pc # "loop"
    /\ \E i \in 1..Len(mem["caller"]), b \in WriteBytes :
          mem' = [mem EXCEPT !["caller"][i] = b]
    /\ UNCHANGED <<StepSeconds, SeedLength, TokenLength, token, given, now,
                   hmacFamily, rng, vc, ret>>

CallGenerateOTP ==
    /\ vc.pc # "loop"
    /\ token # NoToken
    /\ \E counterBytes \in CounterSamples :
          LET r == GenerateOTP(Seed, counterBytes)
          IN  ret' = [op |-> "GenerateOTP", seed |-> Seed,
                      counterBytes |-> counterBytes, otp |-> r.otp, err |-> r.err]
    /\ UNCHANGED <<StepSeconds, SeedLength, TokenLength, mem, token, given, now,
                   hmacFamily, rng, vc>>

CallGenerateTOTP ==
    /\ vc.pc # "loop"
    /\ token # NoToken
    /\ \E genTime \in (-MaxTime)..MaxTime :
          LET r == GenerateTOTP(Seed, genTime)
          IN  ret' = [op |-> "GenerateTOTP", seed |-> Seed, genTime |-> genTime,
                      counterBytes |-> TimeBytes(TimeStep(genTime)),
                      otp |-> r.otp, err |-> r.err]
    /\ UNCHANGED <<StepSeconds, SeedLength, TokenLength, mem, token, given, now,
                   hmacFamily, rng, vc>>

\* Lines 59-72 applied once to a digest drawn from DigestSamples.
TruncateDigest ==
    /\ ret.op = "none"
    /\ \E hmac \in DigestSamples :
          ret' = [op |-> "OTPFromHMAC", hmac |-> hmac, out |-> OTPFromHMAC(hmac)]
    /\ UNCHANGED <<StepSeconds, SeedLength, TokenLength, mem, token, given, now,
                   hmacFamily, rng, vc>>

VerifyBegin ==
    /\ vc.pc # "loop"
    /\ token # NoToken
    /\ \E challenge \in ChallengeSamples, drift \in BOOLEAN :
          vc' = VerifyEnter(challenge, drift)
    /\ UNCHANGED <<StepSeconds, SeedLength, TokenLength, mem, token, given, now,
                   hmacFamily, rng, ret>>

VerifyStep ==
    /\ vc.pc = "loop"
    /\ vc' = VerifyIterate(vc, Seed, now)
    /\ ret' = IF vc'.pc = "done"
              THEN [op |-> "VerifyChallenge", result |-> vc'.result]
              ELSE ret
    /\ UNCHANGED <<StepSeconds, SeedLength, TokenLength, mem, token, given, now,
                   hmacFamily, rng>>

\* The wall clock advances, at any moment.
Tick ==
    /\ now < MaxNow
    /\ now' = now + 1
    /\ UNCHANGED <<StepSeconds, SeedLength, TokenLength, mem, token, given,
                   hmacFamily, rng, vc, ret>>

(***************************************************************************)
(* The state after start-up: the three globals hold their configured       *)
(* values, no token exists and no call has been made.                      *)
(***************************************************************************)
InitWith(stepSet, seedLenSet, tokenLenSet, seedSet, clockSet, familySet) ==
    /\ StepSeconds \in stepSet
    /\ SeedLength \in seedLenSet
    /\ TokenLength \in tokenLenSet
    /\ mem \in {[caller |-> s, fresh |-> <<>>] : s \in seedSet}
    /\ token = NoToken
    /\ given = <<>>
    /\ now \in clockSet
    /\ hmacFamily \in familySet
    /\ rng \in [1..SeedLength -> 0..(Len(runeCharacters) - 1)]
    /\ vc = IdleFrame
    /\ ret = [op |-> "none"]

(***************************************************************************)
(* The whole program: any configuration, any operation.  The               *)
(* specifications that follow restrict it to the operations and the        *)
(* configurations one group of properties is about.                        *)
(***************************************************************************)
Init ==
    InitWith(1..MaxStepSeconds, 0..MaxSeedLength, 1..MaxTokenLength,
             SeedSamples, 0..MaxNow, 0..MaxFamily)

Next ==
    \/ CallTokenFromBytes
    \/ CallNewToken
    \/ CallerWrite
    \/ CallGenerateOTP
    \/ CallGenerateTOTP
    \/ VerifyBegin
    \/ VerifyStep
    \/ Tick

Spec == Init /\ [][Next]_vars

(***************************************************************************)
(* SpecTrunc: the truncation and formatting as a function of the digest,   *)
(* for every TokenLength.                                                  *)
(***************************************************************************)
InitTrunc ==
    InitWith({DefaultStepSeconds}, {0}, 1..MaxTokenLength, {<<>>}, {0}, {0})

SpecTrunc == InitTrunc /\ [][TruncateDigest]_vars

(***************************************************************************)
(* SpecGen: GenerateOTP and GenerateTOTP called on a constructed token,    *)
(* for every TokenLength and StepSeconds.                                  *)
(***************************************************************************)
InitGen ==
    InitWith(1..MaxStepSeconds, {0}, 1..MaxTokenLength, SeedSamples, {0},
             0..MaxFamily)

NextGen ==
    \/ CallTokenFromBytes
    \/ CallGenerateOTP
    \/ CallGenerateTOTP

SpecGen == InitGen /\ [][NextGen]_vars

(***************************************************************************)
(* SpecVerify: VerifyChallenge under a running clock, with one-digit codes *)
(* so that the codes of different steps are sometimes equal.               *)
(***************************************************************************)
InitVerify ==
    InitWith(1..MaxStepSeconds, {0}, {1}, {<<>>, <<65, 66>>}, {0}, {0})

NextVerify ==
    \/ CallTokenFromBytes
    \/ VerifyBegin
    \/ VerifyStep
    \/ Tick

SpecVerify == InitVerify /\ [][NextVerify]_vars

(***************************************************************************)
(* SpecToken: TokenFromBytes, the caller's later writes into its slice,    *)
(* and calls on the token.                                                 *)
(***************************************************************************)
InitToken ==
    InitWith({DefaultStepSeconds}, {0}, {DefaultTokenLength}, SeedSamples, {0}, {0})

NextToken ==
    \/ CallTokenFromBytes
    \/ CallNewToken
    \/ CallerWrite
    \/ CallGenerateOTP
    \/ CallGenerateTOTP

SpecToken == InitToken /\ [][NextToken]_vars

(***************************************************************************)
(* SpecNew: NewToken for every SeedLength and every outcome of the random  *)
(* source.                                                                 *)
(***************************************************************************)
InitNew ==
    InitWith({DefaultStepSeconds}, 0..MaxSeedLength, {DefaultTokenLength},
             {<<65, 66>>}, {0}, {0})

NextNew ==
    \/ CallTokenFromBytes
    \/ CallNewToken

SpecNew == InitNew /\ [][NextNew]_vars

(***************************************************************************)
(* What the claims are stated with, written from RFC4226 and RFC4648 in    *)
(* plain arithmetic rather than from the code.                             *)
(***************************************************************************)
IsDigit(c) == \E d \in 1..10 : DigitChars[d] = c

DigitValue(c) == (CHOOSE d \in 1..10 : DigitChars[d] = c) - 1

RECURSIVE ParseDecimal(_)
ParseDecimal(s) ==
    IF Len(s) = 0 THEN 0
    ELSE 10 * ParseDecimal(SubSeq(s, 1, Len(s) - 1)) + DigitValue(s[Len(s)])

AllDigits(s) == \A i \in 1..Len(s) : IsDigit(s[i])

\* RFC4226 5.3: the low nibble of the last byte, and the 31 bits it selects.
RfcOffset(d) == d[20] % 16

RfcBinCode(d) ==
    LET o == RfcOffset(d)
    IN  (d[o + 1] % 128) * 16777216 + d[o + 2] * 65536 + d[o + 3] * 256 + d[o + 4]

\* RFC4648 6: text is the base-32 encoding, in upper case, of bytes.
StreamBit(bytes, k) ==
    IF k \div 8 < Len(bytes) THEN (bytes[(k \div 8) + 1] \div 2^(7 - (k % 8))) % 2
    ELSE 0

IsUpperBase32Of(text, bytes) ==
    LET n == Len(bytes)
    IN  /\ Len(text) = 8 * ((n + 4) \div 5)
        /\ \A j \in 1..Len(text) :
              IF 5 * (j - 1) < 8 * n
              THEN text[j] = Base32Alphabet[
                      16 * StreamBit(bytes, 5 * j - 5) + 8 * StreamBit(bytes, 5 * j - 4)
                      + 4 * StreamBit(bytes, 5 * j - 3) + 2 * StreamBit(bytes, 5 * j - 2)
                      + StreamBit(bytes, 5 * j - 1) + 1]
              ELSE text[j] = "="

\* The byte values of the characters 0-9 and A-Z.
SeedAlphabetBytes == (48..57) \cup (65..90)

VerifyDone == vc.pc = "done"

\* The time of the call: the clock value its first iteration read.
VerifyTime == vc.genTimes[1]

VerifyStepNo == VerifyTime \div StepSeconds

\* The code of step k for the seed the verified token held.
VerifyCode(k) == CodeOfStep(vc.seed, k)

(***************************************************************************)
(* C1: VerifyChallenge with drift, run at time T of step s = floor(T /     *)
(* StepSeconds), returns true for the code of step s-1, s or s+1, and      *)
(* false for the code of step s-2 or s+2 that is none of those three.      *)
(***************************************************************************)
C1_DriftWindow ==
    (VerifyDone /\ vc.drift /\ Len(vc.seed) > 0) =>
        LET s    == VerifyStepNo
            near == {VerifyCode(s - 1), VerifyCode(s), VerifyCode(s + 1)}
        IN  /\ vc.challenge \in near => vc.result = TRUE
            /\ vc.challenge \in ({VerifyCode(s - 2), VerifyCode(s + 2)} \ near)
                   => vc.result = FALSE

(***************************************************************************)
(* C2: VerifyChallenge without drift, run at time T of step s, returns     *)
(* true only for the code of step s; the code of step s-1 or s+1, when it  *)
(* differs from the code of step s, is refused.                            *)
(***************************************************************************)
C2_ExactStepOnly ==
    (VerifyDone /\ ~vc.drift /\ Len(vc.genTimes) > 0) =>
        LET s == VerifyStepNo
        IN  /\ vc.result = TRUE => vc.challenge = VerifyCode(s)
            /\ (/\ vc.challenge \in {VerifyCode(s - 1), VerifyCode(s + 1)}
                /\ vc.challenge # VerifyCode(s)) => vc.result = FALSE

C2_Witness ==
    /\ VerifyDone /\ ~vc.drift /\ Len(vc.seed) > 0
    /\ vc.challenge = VerifyCode(VerifyStepNo + 1)
    /\ vc.challenge # VerifyCode(VerifyStepNo)
    /\ vc.result = FALSE

(***************************************************************************)
(* C3: from a 20-byte digest the code is binCode mod 10^TokenLength, with  *)
(* offset the low nibble of the last byte and binCode the 31 bits at       *)
(* digest[offset..offset+3]; offset+3 <= 19 and 0 <= binCode < 2^31.       *)
(***************************************************************************)
C3_Truncation ==
    ret.op = "OTPFromHMAC" =>
        LET offset  == RfcOffset(ret.hmac)
            binCode == RfcBinCode(ret.hmac)
        IN  /\ ret.out.offset = offset
            /\ offset + 3 <= 19
            /\ ret.out.binCode = binCode
            /\ binCode >= 0 /\ binCode <= 2147483647
            /\ ret.out.otp = binCode % 10^TokenLength
            /\ ParseDecimal(ret.out.otpString) = binCode % 10^TokenLength

C3_Witness ==
    /\ ret.op = "OTPFromHMAC"
    /\ ret.out.offset = 15
    /\ ret.hmac[16] = 255
    /\ ret.out.binCode = 2147483647
    /\ TokenLength = 6
    /\ ret.out.otp = 483647

(***************************************************************************)
(* C4: for every TokenLength >= 1, a non-empty seed and a non-empty        *)
(* counter, the code has exactly TokenLength characters, all decimal       *)
(* digits, and reads as the truncated value: it is that value left-padded  *)
(* with zeroes.                                                            *)
(***************************************************************************)
C4_FixedLengthZeroPadded ==
    (/\ ret.op \in {"GenerateOTP", "GenerateTOTP"}
     /\ Len(ret.seed) > 0 /\ Len(ret.counterBytes) > 0) =>
        /\ Len(ret.otp) = TokenLength
        /\ AllDigits(ret.otp)
        /\ ParseDecimal(ret.otp)
               = RfcBinCode(HmacSha1(ret.seed, ret.counterBytes)) % 10^TokenLength

C4_Witness ==
    /\ ret.op = "GenerateOTP"
    /\ TokenLength = 6
    /\ Len(ret.otp) = 6
    /\ ret.otp[1] = "0"
    /\ ParseDecimal(ret.otp) > 0

(***************************************************************************)
(* C5: GenerateTOTP hands GenerateOTP the 8-byte big-endian counter of     *)
(* step = floor(genTime / StepSeconds), rounding toward minus infinity,    *)
(* also for negative genTime, and returns what GenerateOTP returns for it. *)
(***************************************************************************)
C5_FloorTimeStep ==
    ret.op = "GenerateTOTP" =>
        LET step == ret.genTime \div StepSeconds
        IN  /\ ret.counterBytes = StepCounter(step)
            /\ ret.otp = GenerateOTP(ret.seed, StepCounter(step)).otp
            /\ ret.err = GenerateOTP(ret.seed, StepCounter(step)).err

(***************************************************************************)
(* C6: once a token is built by TokenFromBytes, whatever the caller does   *)
(* next, its Seed is the byte sequence given at construction and its       *)
(* Base32 is the upper-case base-32 encoding of its Seed.                  *)
(***************************************************************************)
C6_SeedAndBase32Agree ==
    token # NoToken =>
        /\ Seed = given
        /\ IsUpperBase32Of(token.Base32, Seed)

(***************************************************************************)
(* C7: GenerateOTP returns an error and no code when the seed or the       *)
(* counter is empty, and a code and no error when both are non-empty.      *)
(***************************************************************************)
C7_InvalidInput ==
    ret.op = "GenerateOTP" =>
        IF Len(ret.seed) = 0 \/ Len(ret.counterBytes) = 0
        THEN ret.err # "" /\ ret.otp = <<>>
        ELSE ret.err = "" /\ Len(ret.otp) > 0

C7_Witness ==
    /\ ret.op = "GenerateOTP"
    /\ Len(ret.seed) = 0
    /\ Len(ret.counterBytes) = 8
    /\ ret.err # ""
    /\ ret.otp = <<>>

(***************************************************************************)
(* C8: when code generation fails for a candidate, VerifyChallenge         *)
(* returns false, for every challenge, the empty one included, with and    *)
(* without drift.                                                          *)
(***************************************************************************)
C8_GenerationErrorIsFalse ==
    (VerifyDone /\ (vc.err # "" \/ Len(vc.seed) = 0)) => vc.result = FALSE

C8_Witness ==
    /\ VerifyDone
    /\ Len(vc.seed) = 0
    /\ vc.err # ""
    /\ vc.challenge = <<>>
    /\ vc.drift
    /\ vc.result = FALSE

(***************************************************************************)
(* C9: for every SeedLength >= 0 and every outcome of the random source,   *)
(* NewToken returns a token whose Seed has exactly SeedLength bytes, each  *)
(* the byte of one of 0-9, A-Z, and whose Base32 is the upper-case         *)
(* base-32 encoding of that Seed.                                          *)
(***************************************************************************)
C9_NewTokenSeed ==
    ret.op = "NewToken" =>
        /\ token.Seed = "fresh"
        /\ Len(Seed) = SeedLength
        /\ \A i \in 1..Len(Seed) : Seed[i] \in SeedAlphabetBytes
        /\ IsUpperBase32Of(token.Base32, Seed)

C9_Witness ==
    /\ ret.op = "NewToken"
    /\ SeedLength = 2
    /\ Seed = <<48, 90>>
    /\ token.Base32 = <<"G", "B", "N", "A", "=", "=", "=", "=">>

(***************************************************************************)
(* C10: in one VerifyChallenge call with drift the three candidates are    *)
(* computed from one clock value T, as T, T - StepSeconds and              *)
(* T + StepSeconds, and so are the codes of the steps s, s-1 and s+1 of    *)
(* a single s, however the clock advances during the call.                 *)
(***************************************************************************)
C10_OneClockReading ==
    (VerifyDone /\ vc.drift /\ Len(vc.otps) = 3) =>
        LET T == VerifyTime
            s == VerifyStepNo
        IN  /\ vc.genTimes = <<T, T - StepSeconds, T + StepSeconds>>
            /\ vc.otps = <<VerifyCode(s), VerifyCode(s - 1), VerifyCode(s + 1)>>

====
